---- MODULE Spec2Model ----
(***************************************************************************)
(* ALI Rural: the Enrichment Job (src/src/etl/enrich_modulo_fiscal.py) and *)
(* the prospecting tab of the dashboard (src/app.py) as state machines.    *)
(*                                                                         *)
(* Numbers are exact rationals [k, n, d]: k = "num" for n/d in lowest      *)
(* terms, k = "null" for NaN/NULL, k = "inf" for the float +infinity that  *)
(* pandas yields for a positive number divided by zero.  The class labels  *)
(* are written in ASCII ("Media (4-15 MF)" for the source's accented one). *)
(***************************************************************************)
EXTENDS Integers, Sequences, FiniteSets, TLC

VARIABLES
    db_exists,     \* DB_PATH.exists(): the SQLite file is on disk
    ref_exists,    \* REF_PATH.exists(): the reference CSV is on disk
    tbl_imoveis,   \* table imoveis as committed: [exists, rows]
    ref_csv,       \* rows of the reference CSV: [municipio_norm, mf_ha (raw cell)]
    tbl_enr,       \* table imoveis_enriquecido as committed: [exists, rows, indexes]
    pc,            \* position of main() in the current run
    df,            \* the job's data frame once computed
    runs,          \* number of the current run of main()
    before,        \* the stored state when the current run started
    first_result,  \* the enriched table as the first successful run left it
    session,       \* the dashboard process: "off", "boot" or "ready"
    has_enrich,    \* HAS_ENRICH (TBL is imoveis_enriquecido)
    filters,       \* the filter widgets of the prospecting tab
    page_size,     \* the "Linhas por pagina" widget
    qcache,        \* run_query's memo of the ordered queries: pages and export
    view,          \* what the last rerun of the prospecting tab rendered
    exists_memo,   \* run_query's memo of the sqlite_master query of table_exists
    checks,        \* what the storage held when the script ran first and last
    exp            \* the prospecting tab over a table known only by its counts

jobvars == <<db_exists, ref_exists, tbl_imoveis, ref_csv, tbl_enr, pc, df, runs,
             before, first_result>>
dashvars == <<session, has_enrich, filters, page_size, qcache, view, exists_memo,
              checks>>
vars == <<jobvars, dashvars, exp>>

-----------------------------------------------------------------------------
(* Bounds of the model *)

MaxBase == 2
MaxRef == 2
MaxRuns == 2

(* Input domains *)

Municipios == {"CAMPINAS", "JUNDIAI"}
RefMunicipios == {"CAMPINAS"}
Areas == {0, 8, 30, 32}
RawCells == {"", "abc", "0", "2"}

-----------------------------------------------------------------------------
(* Numbers *)

RECURSIVE GCD(_, _)
GCD(a, b) == IF b = 0 THEN a ELSE GCD(b, a % b)

Null == [k |-> "null", n |-> 0, d |-> 1]
Inf == [k |-> "inf", n |-> 0, d |-> 1]
Rat(n, d) == LET g == GCD(n, d) IN [k |-> "num", n |-> n \div g, d |-> d \div g]
Num(n) == Rat(n, 1)

IsNull(v) == v.k = "null"
\* v <= c for a float v and an integer c; NaN compares false, +inf is above all
Leq(v, c) == v.k = "num" /\ v.n <= c * v.d
Geq(v, c) == v.k = "inf" \/ (v.k = "num" /\ v.n >= c * v.d)

-----------------------------------------------------------------------------
(* Enrichment: pure steps of main() *)

NumeralValue == ("0" :> 0) @@ ("2" :> 2)

\* pd.to_numeric(errors="coerce") on one cell: a numeral parses, anything else is NaN
to_numeric(cell) ==
    IF cell \in DOMAIN NumeralValue THEN Num(NumeralValue[cell]) ELSE Null

\* df["area_total_ha"] / df["mf_ha"] on one row, as float division does it
Divide(area, mf) ==
    IF IsNull(mf) THEN Null
    ELSE IF mf.n = 0 THEN (IF area = 0 THEN Null ELSE Inf)
    ELSE Rat(area * mf.d, mf.n)

classificar_por_mf_lt(area_em_mf) ==
    IF IsNull(area_em_mf) THEN "Sem MF"
    ELSE IF Leq(area_em_mf, 4) /\ area_em_mf # Num(4) THEN "Pequena (<=4 MF)"
    ELSE IF Leq(area_em_mf, 15) /\ area_em_mf # Num(15) THEN "Media (4-15 MF)"
    ELSE "Grande (>15 MF)"

classificar_por_mf_nonull(area_em_mf) ==
    IF Leq(area_em_mf, 4) THEN "Pequena (<=4 MF)"
    ELSE IF Leq(area_em_mf, 15) THEN "Media (4-15 MF)"
    ELSE "Grande (>15 MF)"

classificar_por_mf(area_em_mf) ==
    IF IsNull(area_em_mf) THEN "Sem MF"
    ELSE IF Leq(area_em_mf, 4) THEN "Pequena (<=4 MF)"
    ELSE IF Leq(area_em_mf, 15) THEN "Media (4-15 MF)"
    ELSE "Grande (>15 MF)"

JoinRow(row, cell) ==
    [codigo_imovel |-> row.codigo_imovel, municipio_norm |-> row.municipio_norm,
     area_total_ha |-> row.area_total_ha, mf_ha |-> cell]

\* the reference rows whose key equals the row's, in file order
Matches(row, ref) == SelectSeq(ref, LAMBDA r : r.municipio_norm = row.municipio_norm)

\* how="left": an unmatched row is kept once with a missing mf_ha, a matched
\* row is emitted once per matching reference row
LeftJoinRow(row, ref) ==
    LET m == Matches(row, ref)
    IN  IF m = <<>> THEN <<JoinRow(row, "")>>
        ELSE [j \in 1..Len(m) |-> JoinRow(row, m[j].mf_ha)]

RECURSIVE Merge(_, _)
Merge(im, ref) ==
    IF im = <<>> THEN <<>>
    ELSE LeftJoinRow(Head(im), ref) \o Merge(Tail(im), ref)

\* lines 40-42 on one merged row
EnrichRow(r) ==
    LET mf == to_numeric(r.mf_ha)
        a == Divide(r.area_total_ha, mf)
    IN  [codigo_imovel |-> r.codigo_imovel, municipio_norm |-> r.municipio_norm,
         area_total_ha |-> r.area_total_ha, mf_ha |-> mf, area_em_mf |-> a,
         classe_tamanho |-> classificar_por_mf(a)]

Enrich(im, ref) ==
    LET merged == Merge(im, ref)
    IN  [i \in 1..Len(merged) |-> EnrichRow(merged[i])]

-----------------------------------------------------------------------------
(* Stored state *)

EnrIndexes == {"idx_enr_municipio", "idx_enr_area_mf", "idx_enr_classe"}

NoTable == [exists |-> FALSE, rows |-> <<>>]
NoEnr == [exists |-> FALSE, rows |-> <<>>, indexes |-> {}]

Stored == [db |-> db_exists, imoveis |-> tbl_imoveis, enr |-> tbl_enr]

\* base rows: the property code is unique (row i carries code i)
BaseRow(i, m, a) == [codigo_imovel |-> i, municipio_norm |-> m, area_total_ha |-> a]
BaseTables ==
    UNION { { [i \in 1..n |-> BaseRow(i, f[i][1], f[i][2])] :
              f \in [1..n -> Municipios \X Areas] } : n \in 0..MaxBase }

RefRows == [municipio_norm : RefMunicipios, mf_ha : RawCells]
RefFiles == UNION { [1..n -> RefRows] : n \in 0..MaxRef }

\* an enriched table left by an earlier run over earlier inputs
OldEnr ==
    [exists |-> TRUE,
     rows |-> Enrich(<<BaseRow(1, "JUNDIAI", 8)>>, <<>>),
     indexes |-> EnrIndexes]

-----------------------------------------------------------------------------
(* The dashboard at rest *)

\* the widgets' initial values (lines 234-254)
DefaultFilters ==
    [municipio |-> "Todos", area_min |-> 0, area_max |-> 200,
     classe |-> "Todas", area_mf_min |-> 0, area_mf_max |-> 10]

NoCache == [pages |-> {}, all |-> [cached |-> FALSE, rows |-> <<>>]]

NoView ==
    [page |-> 1, total |-> 0, df |-> <<>>, can_export_all |-> FALSE,
     warned |-> FALSE, exported |-> FALSE, df_all |-> <<>>,
     codigo |-> 0, det |-> {}, notice |-> ""]

NoExp ==
    [matching |-> 0, page_size |-> 100, page |-> 1, total |-> 0, shown |-> 0,
     can_export_all |-> FALSE, warned |-> FALSE, ran_full_query |-> FALSE,
     file_rows |-> -1]

\* run_query has not been asked whether imoveis_enriquecido exists
NoMemo == [cached |-> FALSE, found |-> FALSE]

NoChecks == [made |-> FALSE, first |-> FALSE, reran |-> FALSE, last |-> FALSE]

DashboardOff ==
    /\ session = "off"
    /\ has_enrich = FALSE
    /\ filters = DefaultFilters
    /\ page_size = 1
    /\ qcache = NoCache
    /\ view = NoView
    /\ exists_memo = NoMemo
    /\ checks = NoChecks

-----------------------------------------------------------------------------
(* main(): one action per step another connection can tell apart *)

if_exists_append == "append"

\* the if_exists argument of df.to_sql
if_exists == "replace"

\* lines 25-30, with the existence check of the storage file left out:
\* sqlite3.connect then creates an empty file
CheckPathsNoDbCheck ==
    /\ pc = "start"
    /\ IF ~ref_exists
         THEN pc' = "failed" /\ UNCHANGED db_exists
         ELSE pc' = "connected" /\ db_exists' = TRUE
    /\ UNCHANGED <<ref_exists, tbl_imoveis, ref_csv, tbl_enr, df, runs, before,
                   first_result, dashvars, exp>>

\* lines 25-30: FileNotFoundError unless both files exist, then connect
CheckPaths ==
    /\ pc = "start"
    /\ pc' = IF ~db_exists \/ ~ref_exists THEN "failed" ELSE "connected"
    /\ UNCHANGED <<db_exists, ref_exists, tbl_imoveis, ref_csv, tbl_enr, df, runs,
                   before, first_result,
                   dashvars, exp>>

\* lines 33-42: SELECT * FROM imoveis raises when the table is absent (the
\* finally clause closes the connection); otherwise read, join and derive
ReadAndCompute ==
    /\ pc = "connected"
    /\ IF ~tbl_imoveis.exists
         THEN pc' = "failed" /\ UNCHANGED df
         ELSE pc' = "computed" /\ df' = Enrich(tbl_imoveis.rows, ref_csv)
    /\ UNCHANGED <<db_exists, ref_exists, tbl_imoveis, ref_csv, tbl_enr, runs,
                   before, first_result,
                   dashvars, exp>>

\* line 45, first statement of to_sql: with "replace" an existing table is
\* dropped (its indexes go with it); the DDL statement commits on its own
ToSqlDrop ==
    /\ pc = "computed"
    /\ IF tbl_enr.exists /\ if_exists = "replace"
         THEN tbl_enr' = NoEnr /\ pc' = "dropped"
         ELSE IF tbl_enr.exists /\ if_exists = "append"
         THEN pc' = "created" /\ UNCHANGED tbl_enr
         ELSE IF tbl_enr.exists
         THEN pc' = "failed" /\ UNCHANGED tbl_enr
         ELSE pc' = "dropped" /\ UNCHANGED tbl_enr
    /\ UNCHANGED <<db_exists, ref_exists, tbl_imoveis, ref_csv, df, runs, before,
                   first_result, dashvars, exp>>

\* line 45, second statement of to_sql: CREATE TABLE, committed on its own
ToSqlCreate ==
    /\ pc = "dropped"
    /\ tbl_enr' = [exists |-> TRUE, rows |-> <<>>, indexes |-> {}]
    /\ pc' = "created"
    /\ UNCHANGED <<db_exists, ref_exists, tbl_imoveis, ref_csv, df, runs, before,
                   first_result, dashvars, exp>>

\* line 45, last statement of to_sql: all rows inserted in one transaction
ToSqlInsert ==
    /\ pc = "created"
    /\ tbl_enr' = [tbl_enr EXCEPT !.rows = @ \o df]
    /\ pc' = "inserted"
    /\ UNCHANGED <<db_exists, ref_exists, tbl_imoveis, ref_csv, df, runs, before,
                   first_result, dashvars, exp>>

\* CREATE INDEX IF NOT EXISTS <name>
CreateIndex(at, name, next) ==
    /\ pc = at
    /\ tbl_enr' = [tbl_enr EXCEPT !.indexes = @ \cup {name}]
    /\ pc' = next
    /\ UNCHANGED <<db_exists, ref_exists, tbl_imoveis, ref_csv, df, runs, before,
                   first_result, dashvars, exp>>

CreateIndexMunicipio == CreateIndex("inserted", "idx_enr_municipio", "idx1")
CreateIndexAreaMf == CreateIndex("idx1", "idx_enr_area_mf", "idx2")
CreateIndexClasse == CreateIndex("idx2", "idx_enr_classe", "idx3")

\* lines 51-55: commit, report, close
Commit ==
    /\ pc = "idx3"
    /\ pc' = "done"
    /\ first_result' = IF runs = 1 THEN tbl_enr ELSE first_result
    /\ UNCHANGED <<db_exists, ref_exists, tbl_imoveis, ref_csv, tbl_enr, df, runs,
                   before, dashvars, exp>>

\* the job is run again on demand, on the inputs as they are
Rerun ==
    /\ pc \in {"done", "failed"}
    /\ runs < MaxRuns
    /\ runs' = runs + 1
    /\ pc' = "start"
    /\ df' = <<>>
    /\ before' = Stored
    /\ UNCHANGED <<db_exists, ref_exists, tbl_imoveis, ref_csv, tbl_enr,
                   first_result, dashvars, exp>>

Init ==
    /\ db_exists \in BOOLEAN
    /\ ref_exists \in BOOLEAN
    /\ tbl_imoveis \in
         IF db_exists
           THEN {NoTable} \cup {[exists |-> TRUE, rows |-> b] : b \in BaseTables}
           ELSE {NoTable}
    /\ ref_csv \in IF ref_exists THEN RefFiles ELSE {<<>>}
    /\ tbl_enr \in IF db_exists THEN {NoEnr, OldEnr} ELSE {NoEnr}
    /\ pc = "start"
    /\ df = <<>>
    /\ runs = 1
    /\ before = [db |-> db_exists, imoveis |-> tbl_imoveis, enr |-> tbl_enr]
    /\ first_result = NoEnr
    /\ DashboardOff
    /\ exp = NoExp

Next ==
    \/ CheckPaths
    \/ ReadAndCompute
    \/ ToSqlDrop
    \/ ToSqlCreate
    \/ ToSqlInsert
    \/ CreateIndexMunicipio
    \/ CreateIndexAreaMf
    \/ CreateIndexClasse
    \/ Commit
    \/ Rerun

Spec == Init /\ [][Next]_vars

-----------------------------------------------------------------------------
(* The prospecting tab (TAB 2) over the stored table *)

MaxPage == 2
MaxPageSize == 2

\* the allowed page sizes; the source offers [50, 100, 200, 500], scaled here
\* to tables of a few rows: the queries use the value only as LIMIT and in
\* the offset
PageSizes == 1..MaxPageSize

export_limit == 200000

QAreas == {8, 30}
QRawCells == {"2"}

QBaseTables ==
    UNION { { [i \in 1..n |-> BaseRow(i, f[i][1], f[i][2])] :
              f \in [1..n -> Municipios \X QAreas] } : n \in 0..MaxBase }
QRefFiles ==
    UNION { [1..n -> [municipio_norm : RefMunicipios, mf_ha : QRawCells]] :
            n \in 0..MaxRef }

\* codes typed into the detail lookup: the first row's and one no row has
LookupCodes == {1, MaxBase + 1}

\* filter choices of a session; without the enriched table the two MF
\* widgets are not offered
FilterChoices(enriched) ==
    { [DefaultFilters EXCEPT !.classe = c] :
        c \in IF enriched THEN {"Todas", "Sem MF"} ELSE {"Todas"} }

\* the rows of TBL; a row is identified by its position (rowid)
ActiveRows == IF has_enrich THEN tbl_enr.rows ELSE tbl_imoveis.rows

\* x BETWEEN lo AND hi on a float column; NULL BETWEEN ... is not true
Between(v, lo, hi) == Geq(v, lo) /\ Leq(v, hi)

WhereNoBetween(r, f, enriched) ==
    /\ f.area_min <= r.area_total_ha /\ r.area_total_ha <= f.area_max
    /\ (f.municipio # "Todos") => (r.municipio_norm = f.municipio)
    /\ enriched => ((f.classe # "Todas") => (r.classe_tamanho = f.classe))

\* lines 257-301: the conditions AND-ed into where_sql (every modelled row
\* has uf = 'SP' and a percentual_detencao at or above the slider's minimum)
Where(r, f, enriched) ==
    /\ f.area_min <= r.area_total_ha /\ r.area_total_ha <= f.area_max
    /\ (f.municipio # "Todos") => (r.municipio_norm = f.municipio)
    /\ enriched =>
         /\ (f.classe # "Todas") => (r.classe_tamanho = f.classe)
         /\ Between(r.area_em_mf, f.area_mf_min, f.area_mf_max)

Filtered(rows, f, enriched) == {i \in 1..Len(rows) : Where(rows[i], f, enriched)}

\* SQLite's order of floats: NULL first, +inf last
Greater(a, b) ==
    \/ a.k = "inf" /\ b.k # "inf"
    \/ a.k = "num" /\ b.k = "null"
    \/ a.k = "num" /\ b.k = "num" /\ a.n * b.d > b.n * a.d

\* ORDER BY area_em_mf DESC, area_total_ha DESC (or area_total_ha DESC alone):
\* r1 has to come before r2
SortsBefore(r1, r2, enriched) ==
    IF enriched
      THEN \/ Greater(r1.area_em_mf, r2.area_em_mf)
           \/ r1.area_em_mf = r2.area_em_mf /\ r1.area_total_ha > r2.area_total_ha
      ELSE r1.area_total_ha > r2.area_total_ha

\* every order of the rows `ids` the ORDER BY clause allows: rows equal in
\* all its terms come in an order SQL leaves undefined
RECURSIVE Orderings(_, _, _)
Orderings(ids, rows, enriched) ==
    IF ids = {} THEN {<<>>}
    ELSE UNION { { <<x>> \o t : t \in Orderings(ids \ {x}, rows, enriched) } :
                 x \in { y \in ids :
                           \A z \in ids : ~SortsBefore(rows[z], rows[y], enriched) } }

\* LIMIT limit OFFSET offset
Slice(o, limit, offset) ==
    IF offset >= Len(o) THEN <<>>
    ELSE SubSeq(o, offset + 1,
                IF offset + limit <= Len(o) THEN offset + limit ELSE Len(o))

CanExportAllStrict(total) == total < export_limit

\* line 358
CanExportAll(total) == total <= export_limit

\* lines 402-406: the rows whose codigo_imovel is the code typed
DetailRows(rows, codigo) == {i \in 1..Len(rows) : rows[i].codigo_imovel = codigo}

table_exists_uncached == tbl_enr.exists

\* lines 44-50 and 67-72: table_exists("imoveis_enriquecido"); run_query
\* answers from its memo once it has answered the query
table_exists == IF exists_memo.cached THEN exists_memo.found ELSE tbl_enr.exists

CachedPages == {c.page : c \in qcache.pages}
CachedPage(k) == (CHOOSE c \in qcache.pages : c.page = k).rows

\* One rerun of the script's TAB 2 with the page widget at k, the code input
\* at codigo and the export button clicked or not (lines 228-413).  A query
\* run_query has answered before is answered from its memo.
RerunTab2(k, codigo, clicked) ==
    /\ session = "ready"
    /\ LET rows == ActiveRows
           ids == Filtered(rows, filters, has_enrich)
           total == Cardinality(ids)
           offset == (k - 1) * page_size
           can == CanExportAll(total)
           det == IF codigo = 0 THEN {} ELSE DetailRows(rows, codigo)
       IN  \E o \in IF k \in CachedPages THEN {<<>>}
                    ELSE Orderings(ids, rows, has_enrich),
              oa \in IF clicked /\ ~qcache.all.cached
                     THEN Orderings(ids, rows, has_enrich) ELSE {<<>>} :
             LET page_rows == IF k \in CachedPages THEN CachedPage(k)
                              ELSE Slice(o, page_size, offset)
                 all_rows == IF qcache.all.cached THEN qcache.all.rows ELSE oa
             IN  /\ qcache' =
                       [pages |-> qcache.pages \cup {[page |-> k, rows |-> page_rows]},
                        all |-> IF clicked THEN [cached |-> TRUE, rows |-> all_rows]
                                ELSE qcache.all]
                 /\ view' =
                       [page |-> k, total |-> total, df |-> page_rows,
                        can_export_all |-> can, warned |-> ~can,
                        exported |-> clicked,
                        df_all |-> IF clicked THEN all_rows ELSE <<>>,
                        codigo |-> codigo, det |-> det,
                        notice |-> IF codigo # 0 /\ det = {}
                                   THEN "Codigo nao encontrado." ELSE ""]
    /\ has_enrich' = table_exists
    /\ UNCHANGED <<jobvars, session, filters, page_size, exists_memo, checks, exp>>

\* lines 108-120: the script's first run finds the storage file and picks TBL
Startup ==
    /\ session = "boot"
    /\ db_exists
    /\ session' = "ready"
    /\ exists_memo' = [cached |-> TRUE, found |-> table_exists]
    /\ has_enrich' = table_exists
    /\ checks' = [made |-> TRUE, first |-> tbl_enr.exists, reran |-> FALSE,
                  last |-> tbl_enr.exists]
    /\ UNCHANGED <<jobvars, filters, page_size, qcache, view, exp>>

\* the user sets the page number (line 306)
SetPage == \E k \in 1..MaxPage : RerunTab2(k, view.codigo, FALSE)

\* the user types a property code (line 383)
TypeCodigo == \E c \in LookupCodes : RerunTab2(view.page, c, FALSE)

\* the user clicks "Gerar Excel (todos filtrados)", which a disabled button
\* does not allow (line 362)
ClickExportAll ==
    /\ view.can_export_all
    /\ RerunTab2(view.page, view.codigo, TRUE)

\* a dashboard session over a store at rest: the job has run over the base
\* table and the reference file, or there is no reference file yet and the
\* job has not run
InitQuery ==
    /\ db_exists = TRUE
    /\ ref_exists \in BOOLEAN
    /\ \E b \in QBaseTables :
         tbl_imoveis = [exists |-> TRUE, rows |-> b]
    /\ ref_csv \in IF ref_exists THEN QRefFiles ELSE {<<>>}
    /\ tbl_enr = IF ref_exists
                   THEN [exists |-> TRUE,
                         rows |-> Enrich(tbl_imoveis.rows, ref_csv),
                         indexes |-> EnrIndexes]
                   ELSE NoEnr
    /\ pc = IF tbl_enr.exists THEN "done" ELSE "start"
    /\ df = <<>>
    /\ runs = 1
    /\ before = [db |-> db_exists, imoveis |-> tbl_imoveis, enr |-> tbl_enr]
    /\ first_result = tbl_enr
    /\ session = "boot"
    /\ has_enrich = FALSE
    /\ filters \in FilterChoices(tbl_enr.exists)
    /\ page_size \in PageSizes
    /\ qcache = NoCache
    /\ view = NoView
    /\ exists_memo = NoMemo
    /\ checks = NoChecks
    /\ exp = NoExp

NextQuery ==
    \/ Startup
    \/ SetPage
    \/ TypeCodigo
    \/ ClickExportAll

SpecQuery == InitQuery /\ [][NextQuery]_vars

-----------------------------------------------------------------------------
(* The prospecting tab over a table known only by its counts.  The export *)
(* ceiling is 200,000 rows, so here the table and the filters are reduced  *)
(* to the number of rows that match; the stored rows are not modelled.     *)

ExportMargin == 3

\* line 305
ExportPageSizes == {50, 100, 200, 500}

\* numbers of matching rows: none, a few, and those around the ceiling
MatchCounts ==
    {0, 120} \cup { n \in 0..(export_limit + ExportMargin) :
                      n >= export_limit - ExportMargin }

\* rows of LIMIT limit OFFSET offset over total rows
SliceCount(total, limit, offset) ==
    IF offset >= total THEN 0
    ELSE IF offset + limit <= total THEN limit ELSE total - offset

\* what one rerun of TAB 2 renders (lines 303-377) when n rows match
RenderCounts(n, ps, k, clicked) ==
    [matching |-> n, page_size |-> ps, page |-> k, total |-> n,
     shown |-> SliceCount(n, ps, (k - 1) * ps),
     can_export_all |-> CanExportAll(n), warned |-> ~CanExportAll(n),
     ran_full_query |-> clicked,
     file_rows |-> IF clicked THEN n ELSE -1]

\* the user moves a filter widget: another number of rows matches
ChangeFilters ==
    /\ \E n \in MatchCounts :
         exp' = RenderCounts(n, exp.page_size, exp.page, FALSE)
    /\ UNCHANGED <<jobvars, dashvars>>

\* line 305
ChoosePageSize ==
    /\ \E ps \in ExportPageSizes :
         exp' = RenderCounts(exp.matching, ps, exp.page, FALSE)
    /\ UNCHANGED <<jobvars, dashvars>>

\* line 306
TurnPage ==
    /\ \E k \in 1..MaxPage :
         exp' = RenderCounts(exp.matching, exp.page_size, k, FALSE)
    /\ UNCHANGED <<jobvars, dashvars>>

\* line 362: the button answers a click only while it is enabled; the rerun
\* the click starts counts the same rows and runs the full query
PressExportAll ==
    /\ exp.can_export_all
    /\ exp' = RenderCounts(exp.matching, exp.page_size, exp.page, TRUE)
    /\ UNCHANGED <<jobvars, dashvars>>

\* the first run of the script, with the widgets at their initial values
InitExport ==
    /\ db_exists = TRUE
    /\ ref_exists = FALSE
    /\ tbl_imoveis = [exists |-> TRUE, rows |-> <<>>]
    /\ ref_csv = <<>>
    /\ tbl_enr = NoEnr
    /\ pc = "start"
    /\ df = <<>>
    /\ runs = 1
    /\ before = [db |-> db_exists, imoveis |-> tbl_imoveis, enr |-> tbl_enr]
    /\ first_result = NoEnr
    /\ session = "ready"
    /\ has_enrich = FALSE
    /\ filters = DefaultFilters
    /\ page_size = 1
    /\ qcache = NoCache
    /\ view = NoView
    /\ exists_memo = NoMemo
    /\ checks = NoChecks
    /\ \E n \in MatchCounts : exp = RenderCounts(n, 100, 1, FALSE)

NextExport ==
    \/ ChangeFilters
    \/ ChoosePageSize
    \/ TurnPage
    \/ PressExportAll

SpecExport == InitExport /\ [][NextExport]_vars

-----------------------------------------------------------------------------
(* The prospecting tab over the enriched table, for every choice of the    *)
(* size-class and MF-range filters                                         *)

\* line 248: the options of the size-class selectbox
Classes ==
    {"Todas", "Pequena (<=4 MF)", "Media (4-15 MF)", "Grande (>15 MF)", "Sem MF"}

\* lines 251-254: the MF slider at its initial value and at its full range
MfRanges == {<<0, 10>>, <<0, 100>>}

\* lines 234-254: the municipality selectbox, the size-class selectbox and
\* the MF slider
MfFilterChoices ==
    { [DefaultFilters EXCEPT !.municipio = m, !.classe = c,
                             !.area_mf_min = mf[1], !.area_mf_max = mf[2]] :
        m \in {"Todos", "JUNDIAI"}, c \in Classes, mf \in MfRanges }

\* a reference file that knows CAMPINAS alone, at 2 ha or at 0 ha per
\* module: JUNDIAI's records are stored without a module size
FilterRefFiles ==
    { <<[municipio_norm |-> "CAMPINAS", mf_ha |-> c]>> : c \in {"2", "0"} }

\* a dashboard session over the table the job has left
InitFilter ==
    /\ db_exists = TRUE
    /\ ref_exists = TRUE
    /\ \E b \in QBaseTables :
         tbl_imoveis = [exists |-> TRUE, rows |-> b]
    /\ ref_csv \in FilterRefFiles
    /\ tbl_enr = [exists |-> TRUE,
                  rows |-> Enrich(tbl_imoveis.rows, ref_csv),
                  indexes |-> EnrIndexes]
    /\ pc = "done"
    /\ df = <<>>
    /\ runs = 1
    /\ before = [db |-> db_exists, imoveis |-> tbl_imoveis, enr |-> tbl_enr]
    /\ first_result = tbl_enr
    /\ session = "boot"
    /\ has_enrich = FALSE
    /\ filters \in MfFilterChoices
    /\ page_size = 1
    /\ qcache = NoCache
    /\ view = NoView
    /\ exists_memo = NoMemo
    /\ checks = NoChecks
    /\ exp = NoExp

NextFilter ==
    \/ Startup
    \/ SetPage
    \/ ClickExportAll

SpecFilter == InitFilter /\ [][NextFilter]_vars

-----------------------------------------------------------------------------
(* The dashboard's choice of table while the Enrichment Job runs beside it *)

\* One later rerun of the script, from line 108 to its end: TBL and
\* HAS_ENRICH are computed again (lines 119-120), then the tabs ask their
\* queries of TBL.  fresh: the rerun asks a query run_query has not answered
\* yet (a widget was moved); such a query reaches the storage and raises
\* when TBL is not there, the others are answered from the memo.
ScriptRerun ==
    /\ session = "ready"
    /\ db_exists
    /\ \E fresh \in BOOLEAN :
         LET found == table_exists
             stored == IF found THEN tbl_enr.exists ELSE tbl_imoveis.exists
         IN  /\ exists_memo' = [cached |-> TRUE, found |-> found]
             /\ has_enrich' = found
             /\ view' = [NoView EXCEPT !.notice =
                            IF fresh /\ ~stored THEN "no such table" ELSE ""]
    /\ checks' = [checks EXCEPT !.reran = TRUE, !.last = tbl_enr.exists]
    /\ UNCHANGED <<jobvars, session, filters, page_size, qcache, exp>>

\* the dashboard process is started at some point of the job's work; what
\* the job computes plays no part in the choice, so its inputs are short
InitDetect ==
    /\ db_exists = TRUE
    /\ ref_exists = TRUE
    /\ \E b \in {t \in BaseTables : Len(t) = 1} :
         tbl_imoveis = [exists |-> TRUE, rows |-> b]
    /\ ref_csv \in {r \in RefFiles : Len(r) <= 1}
    /\ tbl_enr \in {NoEnr, OldEnr}
    /\ pc = "start"
    /\ df = <<>>
    /\ runs = 1
    /\ before = [db |-> db_exists, imoveis |-> tbl_imoveis, enr |-> tbl_enr]
    /\ first_result = NoEnr
    /\ session = "boot"
    /\ has_enrich = FALSE
    /\ filters = DefaultFilters
    /\ page_size = 1
    /\ qcache = NoCache
    /\ view = NoView
    /\ exists_memo = NoMemo
    /\ checks = NoChecks
    /\ exp = NoExp

NextDetect ==
    \/ Next
    \/ Startup
    \/ ScriptRerun

SpecDetect == InitDetect /\ [][NextDetect]_vars

-----------------------------------------------------------------------------
(* Properties of the Enrichment Job *)

Range(s) == {s[i] : i \in 1..Len(s)}

BaseFields(e) ==
    [codigo_imovel |-> e.codigo_imovel, municipio_norm |-> e.municipio_norm,
     area_total_ha |-> e.area_total_ha]

\* the enriched rows of one property record
RowsOf(r) == {e \in Range(tbl_enr.rows) : BaseFields(e) = r}

\* raw reference cells that hold a number / a positive number
IsNumeral(cell) == cell \in DOMAIN NumeralValue
IsPositiveNumeral(cell) == IsNumeral(cell) /\ NumeralValue[cell] > 0

\* the threshold table of the size classes, for area / mf with mf > 0
ThresholdClass(area, mf) ==
    IF area <= 4 * mf THEN "Pequena (<=4 MF)"
    ELSE IF area <= 15 * mf THEN "Media (4-15 MF)"
    ELSE "Grande (>15 MF)"

\* the row holds mf, the exact quotient area / mf and the class of the table
DerivedFrom(e, mf) ==
    /\ e.mf_ha = Num(mf)
    /\ e.area_em_mf.k = "num"
    /\ e.area_em_mf.n * mf = e.area_total_ha * e.area_em_mf.d
    /\ e.classe_tamanho = ThresholdClass(e.area_total_ha, mf)

\* C1: after a successful run, a property record whose municipality is in
\* the reference with a positive numeric module size has an enriched row with
\* that mf_ha, area_em_mf = area_total_ha / mf_ha exactly and the class of the
\* threshold table (4 is still Small, 15 still Medium); and every enriched row
\* with a positive mf_ha took it from a reference row of its municipality and
\* is derived in the same way.
C1_DerivedFields ==
    pc = "done" =>
        /\ \A r \in Range(tbl_imoveis.rows), c \in Range(ref_csv) :
             (c.municipio_norm = r.municipio_norm /\ IsPositiveNumeral(c.mf_ha))
               => \E e \in RowsOf(r) : DerivedFrom(e, NumeralValue[c.mf_ha])
        /\ \A e \in Range(tbl_enr.rows) :
             (e.mf_ha.k = "num" /\ e.mf_ha.n > 0)
               => \E c \in Range(ref_csv) :
                    /\ c.municipio_norm = e.municipio_norm
                    /\ IsPositiveNumeral(c.mf_ha)
                    /\ DerivedFrom(e, NumeralValue[c.mf_ha])

\* C1 witness: a finished run stored a row at exactly 4 MF (Small), one at
\* exactly 15 MF (Medium).
C1_Witness ==
    /\ pc = "done"
    /\ \E e \in Range(tbl_enr.rows) :
         e.area_em_mf = Num(4) /\ e.classe_tamanho = "Pequena (<=4 MF)"
    /\ \E e \in Range(tbl_enr.rows) :
         e.area_em_mf = Num(15) /\ e.classe_tamanho = "Media (4-15 MF)"

\* C2: after a run, every enriched row whose module size is null or zero has
\* a null area_em_mf and the class "Sem MF".
C2_NullOnZeroDivisor ==
    pc = "done" =>
        \A e \in Range(tbl_enr.rows) :
            (IsNull(e.mf_ha) \/ e.mf_ha = Num(0))
              => (IsNull(e.area_em_mf) /\ e.classe_tamanho = "Sem MF")

\* C3: at every point of a run, whoever reads imoveis_enriquecido finds no
\* table, the whole prior version or the whole new version.
C3_ReaderSeesWholeVersion ==
    \/ ~tbl_enr.exists
    \/ before.enr.exists /\ tbl_enr.rows = before.enr.rows
    \/ tbl_imoveis.exists /\ tbl_enr.rows = Enrich(tbl_imoveis.rows, ref_csv)

\* C4: after a successful run the enriched table holds exactly one row per
\* row of the base table, in order, with the base fields unchanged.
C4_OneRowPerRecord ==
    pc = "done" =>
        /\ Len(tbl_enr.rows) = Len(tbl_imoveis.rows)
        /\ \A i \in 1..Len(tbl_enr.rows) :
             i <= Len(tbl_imoveis.rows)
               => BaseFields(tbl_enr.rows[i]) = tbl_imoveis.rows[i]

\* C5: a run over present inputs does not fail, and after it every property
\* record whose municipality has no reference row, or only reference rows
\* with a missing or non-numeric module size, is stored with mf_ha null,
\* area_em_mf null and the class "Sem MF".
C5_NoModule ==
    /\ (pc = "failed") =>
          (~before.db \/ ~ref_exists \/ ~before.imoveis.exists)
    /\ (pc = "done") =>
          \A r \in Range(tbl_imoveis.rows) :
             (\A c \in Range(ref_csv) :
                  c.municipio_norm = r.municipio_norm => ~IsNumeral(c.mf_ha))
               => /\ RowsOf(r) # {}
                  /\ \A e \in RowsOf(r) :
                       /\ IsNull(e.mf_ha)
                       /\ IsNull(e.area_em_mf)
                       /\ e.classe_tamanho = "Sem MF"

\* C5 witness: a finished run over a record of a municipality the reference
\* lacks and a record whose reference rows hold "abc" and an empty cell.
C5_Witness ==
    /\ pc = "done"
    /\ \E r \in Range(tbl_imoveis.rows) :
         /\ \A c \in Range(ref_csv) : c.municipio_norm # r.municipio_norm
         /\ \E e \in RowsOf(r) : e.classe_tamanho = "Sem MF"
    /\ \E r \in Range(tbl_imoveis.rows) :
         /\ \E c \in Range(ref_csv) :
              c.municipio_norm = r.municipio_norm /\ c.mf_ha = "abc"
         /\ \E c \in Range(ref_csv) :
              c.municipio_norm = r.municipio_norm /\ c.mf_ha = ""
         /\ \A e \in RowsOf(r) : e.classe_tamanho = "Sem MF"

AbsentAtStart == ~before.db \/ ~before.imoveis.exists \/ ~ref_exists

\* C6: a run started without the storage file, the base table or the
\* reference file never gets past reading (it ends failed) and the stored
\* state stays what it was when the run started.
C6_AbortLeavesStateUntouched ==
    AbsentAtStart =>
        /\ pc \in {"start", "connected", "failed"}
        /\ Stored = before

\* C6 witness: a run has failed on a missing base table beside an enriched
\* table of an earlier run.
C6_Witness ==
    /\ pc = "failed"
    /\ db_exists /\ ref_exists /\ ~tbl_imoveis.exists
    /\ tbl_enr = OldEnr

\* C7: the second successful run over unchanged inputs leaves the enriched
\* table (rows in order, values, indexes) as the first run left it.
C7_Idempotent ==
    (runs = 2 /\ pc = "done") => tbl_enr = first_result

\* C7 witness: a second run has finished over a table of two or more rows
\* that it had to replace.
C7_Witness ==
    /\ runs = 2 /\ pc = "done"
    /\ before.enr.exists
    /\ Len(tbl_enr.rows) >= 2
    /\ tbl_enr.indexes = EnrIndexes

-----------------------------------------------------------------------------
(* Properties of the prospecting tab *)

C9_DetailAtMostOne ==
    (session = "ready" /\ view.codigo # 0) =>
        /\ Cardinality(view.det) <= 1
        /\ (\A i \in 1..Len(ActiveRows) :
               ActiveRows[i].codigo_imovel # view.codigo)
             => (view.det = {} /\ view.notice = "Codigo nao encontrado.")

\* C10: "export all" is enabled exactly when the total is at most 200,000
\* (the warning shows exactly when it is not), and a rerun that renders it
\* disabled runs no full-result query and produces no file.
C10_ExportGate ==
    /\ exp.can_export_all <=> (exp.total <= 200000)
    /\ exp.warned <=> (exp.total > 200000)
    /\ exp.ran_full_query => (exp.total <= 200000 /\ exp.file_rows = exp.total)
    /\ ~exp.can_export_all => (~exp.ran_full_query /\ exp.file_rows = -1)

\* C10 witness: with exactly 200,000 matching rows the export has run.
C10_Witness ==
    /\ exp.total = 200000
    /\ exp.can_export_all
    /\ exp.ran_full_query
    /\ exp.file_rows = 200000

\* C11: within one dashboard process HAS_ENRICH is, at every rerun of the
\* script, what the first existence check found: a dashboard that found no
\* enriched table stays on the base table after the job has created one, and
\* a dashboard that found one keeps targeting it while the job has it dropped.
C11_ChoiceFixedAtFirstCheck ==
    (session = "ready") =>
        /\ checks.made
        /\ has_enrich = checks.first
        /\ exists_memo = [cached |-> TRUE, found |-> checks.first]

\* C11 witness: the first check found the enriched table; a rerun made
\* while the job had it dropped still targets it, and its query fails.
C11_Witness ==
    /\ session = "ready"
    /\ checks.first /\ checks.reran /\ ~checks.last
    /\ ~tbl_enr.exists
    /\ has_enrich
    /\ view.notice = "no such table"

\* the other case of C11: the first check found no enriched table; a rerun
\* made after the job has finished creating it still uses the base table.
C11_WitnessFallback ==
    /\ session = "ready"
    /\ ~checks.first /\ checks.reran /\ checks.last
    /\ pc = "done" /\ tbl_enr.exists
    /\ ~has_enrich

\* the stored rows whose area_em_mf lies in the MF range of the filters
InMfRange ==
    {i \in 1..Len(tbl_enr.rows) :
       Between(tbl_enr.rows[i].area_em_mf, filters.area_mf_min,
               filters.area_mf_max)}

\* C12: with the enriched table active, the count, page and export-all
\* queries count and return only rows whose area_em_mf lies between the MF
\* slider's ends, whatever the other filters are; so no row with a null
\* area_em_mf is counted or returned, under any size class, "Todas" and
\* "Sem MF" included.
C12_MfRangeAlwaysApplied ==
    (session = "ready" /\ has_enrich) =>
        /\ view.total <= Cardinality(InMfRange)
        /\ \A c \in qcache.pages : Range(c.rows) \subseteq InMfRange
        /\ Range(view.df) \subseteq InMfRange
        /\ Range(view.df_all) \subseteq InMfRange
        /\ \A i \in InMfRange : ~IsNull(tbl_enr.rows[i].area_em_mf)
        /\ view.exported => (Len(view.df_all) = view.total)

\* C12 witness: the size class asked for is "Sem MF", the table holds a
\* "Sem MF" record that passes every other filter, and the count is zero,
\* the page empty and the export-all file empty.
C12_Witness ==
    /\ session = "ready" /\ has_enrich
    /\ filters.classe = "Sem MF"
    /\ \E i \in 1..Len(tbl_enr.rows) :
         /\ IsNull(tbl_enr.rows[i].area_em_mf)
         /\ WhereNoBetween(tbl_enr.rows[i], filters, TRUE)
    /\ qcache.pages # {}
    /\ view.exported
    /\ view.total = 0 /\ view.df = <<>> /\ view.df_all = <<>>

\* the same under "Todas": a record with a module size and one without pass
\* every other filter; the count and the export-all file hold the first only.
C12_WitnessTodas ==
    /\ session = "ready" /\ has_enrich
    /\ filters.classe = "Todas"
    /\ \E i \in 1..Len(tbl_enr.rows) :
         /\ IsNull(tbl_enr.rows[i].area_em_mf)
         /\ WhereNoBetween(tbl_enr.rows[i], filters, TRUE)
    /\ view.exported
    /\ view.total = 1 /\ Len(view.df_all) = 1

====
